---- MODULE Spec2Model ----
(***************************************************************************)
(* Request pipeline of the ATS checker service (src/app.js and its         *)
(* second deployment variant src/unnamed/part_000): multer upload intake,  *)
(* PDF text extraction, the call to the generation client, the strict /    *)
(* fallback response normaliser and the cleanup of the uploaded file.      *)
(*                                                                         *)
(* Texts are sequences of lexical units: one unit is a punctuation         *)
(* character, a decimal digit, a whole string literal, a literal name      *)
(* (null, true, false), a white-space character (SP, CR, LF) or a run of   *)
(* letters ("w").                                                          *)
(***************************************************************************)
EXTENDS Integers, Sequences, FiniteSets, TLC

(***************************************************************************)
(* Bounds of the model.                                                    *)
(***************************************************************************)
NumReqs == 2
MaxTime == 1

Reqs == 1..NumReqs
Times == 0..MaxTime

(***************************************************************************)
(* JavaScript values.                                                      *)
(***************************************************************************)
Undef == [t |-> "undef"]
Null == [t |-> "null"]
Num(n) == [t |-> "num", v |-> n]
Str(s) == [t |-> "str", v |-> s]
Text(s) == [t |-> "text", v |-> s]
Bool(b) == [t |-> "bool", v |-> b]
Arr(s) == [t |-> "arr", v |-> s]
Obj(f) == [t |-> "obj", v |-> f]

NoKeys == [k \in {} |-> Undef]

IsString(x) == x.t \in {"str", "text"}
IsNumber(x) == x.t = "num"
IsArray(x) == x.t = "arr"
IsStringArray(x) == IsArray(x) /\ \A i \in 1..Len(x.v) : IsString(x.v[i])

\* ToBoolean, as applied by !x and x || y
Truthy(x) ==
  CASE x.t = "undef" -> FALSE
    [] x.t = "null" -> FALSE
    [] x.t = "num" -> x.v # 0
    [] x.t = "str" -> x.v # ""
    [] x.t = "text" -> x.v # << >>
    [] x.t = "bool" -> x.v
    [] OTHER -> TRUE

\* x || y
OrElse(x, y) == IF Truthy(x) THEN x ELSE y

\* parsedResponse.key: reading a property of null throws a TypeError, a
\* property an object does not have, or any named property of a number, a
\* string, a boolean or an array used here, is undefined
CanGet(x) == x.t # "null"
Get(x, key) ==
  IF x.t = "obj" /\ key \in DOMAIN x.v THEN x.v[key] ELSE Undef

(***************************************************************************)
(* Lexical units.                                                          *)
(***************************************************************************)
Digits == {"0", "1", "2", "3", "4", "5", "6", "7", "8", "9"}
DigitVal(d) ==
  CASE d = "0" -> 0 [] d = "1" -> 1 [] d = "2" -> 2 [] d = "3" -> 3
    [] d = "4" -> 4 [] d = "5" -> 5 [] d = "6" -> 6 [] d = "7" -> 7
    [] d = "8" -> 8 [] d = "9" -> 9

\* JSON white space; CR and LF are also the characters of /[\r\n]+/
JsonWs == {"SP", "CR", "LF"}
LineEnds == {"CR", "LF"}

\* string literals, each one unit, and the string each denotes
StrLits == {"'score'", "'findings'", "'suggestions'", "'coverLetter'",
            "'x'", "'y'", "''"}
StrVal(u) ==
  CASE u = "'score'" -> "score"
    [] u = "'findings'" -> "findings"
    [] u = "'suggestions'" -> "suggestions"
    [] u = "'coverLetter'" -> "coverLetter"
    [] u = "'x'" -> "x"
    [] u = "'y'" -> "y"
    [] u = "''" -> ""

(***************************************************************************)
(* JSON.parse                                                              *)
(***************************************************************************)
ParseFail == [ok |-> FALSE]
ParseOk(val, next) == [ok |-> TRUE, val |-> val, next |-> next]

RECURSIVE SkipWs(_, _)
SkipWs(s, i) ==
  IF i <= Len(s) /\ s[i] \in JsonWs THEN SkipWs(s, i + 1) ELSE i

\* the position after the run of digits that starts at i
RECURSIVE DigitsEnd(_, _)
DigitsEnd(s, i) ==
  IF i <= Len(s) /\ s[i] \in Digits THEN DigitsEnd(s, i + 1) ELSE i

\* the decimal value of the digits s[i..j-1], after the value acc
RECURSIVE DecimalValue(_, _, _, _)
DecimalValue(s, i, j, acc) ==
  IF i >= j THEN acc
  ELSE DecimalValue(s, i + 1, j, acc * 10 + DigitVal(s[i]))

RECURSIVE ParseValue(_, _)
RECURSIVE ParseElements(_, _, _)
RECURSIVE ParseMembers(_, _, _)

\* a JSON value starting at or after position i
ParseValue(s, i) ==
  LET j == SkipWs(s, i) IN
  IF j > Len(s) THEN ParseFail
  ELSE
    CASE s[j] \in Digits ->
           LET k == DigitsEnd(s, j) IN
           \* a JSON number has no leading zero
           IF s[j] = "0" /\ k > j + 1 THEN ParseFail
           ELSE ParseOk(Num(DecimalValue(s, j, k, 0)), k)
      [] s[j] \in StrLits -> ParseOk(Str(StrVal(s[j])), j + 1)
      [] s[j] = "null" -> ParseOk(Null, j + 1)
      [] s[j] = "true" -> ParseOk(Bool(TRUE), j + 1)
      [] s[j] = "false" -> ParseOk(Bool(FALSE), j + 1)
      [] s[j] = "[" ->
           LET k == SkipWs(s, j + 1) IN
           IF k <= Len(s) /\ s[k] = "]" THEN ParseOk(Arr(<< >>), k + 1)
           ELSE ParseElements(s, j + 1, << >>)
      [] s[j] = "{" ->
           LET k == SkipWs(s, j + 1) IN
           IF k <= Len(s) /\ s[k] = "}" THEN ParseOk(Obj(NoKeys), k + 1)
           ELSE ParseMembers(s, j + 1, NoKeys)
      [] OTHER -> ParseFail

\* value (, value)* ] with the elements read so far in acc
ParseElements(s, i, acc) ==
  LET e == ParseValue(s, i) IN
  IF ~e.ok THEN ParseFail
  ELSE
    LET j == SkipWs(s, e.next) IN
    IF j > Len(s) THEN ParseFail
    ELSE IF s[j] = "]" THEN ParseOk(Arr(Append(acc, e.val)), j + 1)
    ELSE IF s[j] = "," THEN ParseElements(s, j + 1, Append(acc, e.val))
    ELSE ParseFail

\* string : value (, string : value)* } with the members read so far in acc;
\* a repeated key keeps its last value
ParseMembers(s, i, acc) ==
  LET j == SkipWs(s, i) IN
  IF j > Len(s) \/ s[j] \notin StrLits THEN ParseFail
  ELSE
    LET c == SkipWs(s, j + 1) IN
    IF c > Len(s) \/ s[c] # ":" THEN ParseFail
    ELSE
      LET e == ParseValue(s, c + 1) IN
      IF ~e.ok THEN ParseFail
      ELSE
        LET k == SkipWs(s, e.next)
            members == (StrVal(s[j]) :> e.val) @@ acc
        IN
        IF k > Len(s) THEN ParseFail
        ELSE IF s[k] = "}" THEN ParseOk(Obj(members), k + 1)
        ELSE IF s[k] = "," THEN ParseMembers(s, k + 1, members)
        ELSE ParseFail

\* JSON.parse(text): one value and nothing but white space after it
JsonParse(s) ==
  LET r == ParseValue(s, 1) IN
  IF r.ok /\ SkipWs(s, r.next) > Len(s) THEN r ELSE ParseFail

(***************************************************************************)
(* String operations of the handlers.                                      *)
(***************************************************************************)
\* the position of the first digit at or after i, Len(s) + 1 when none
RECURSIVE FirstDigit(_, _)
FirstDigit(s, i) ==
  IF i > Len(s) \/ s[i] \in Digits THEN i ELSE FirstDigit(s, i + 1)

\* responseText.match(/\d+/) is not null
HasDigits(s) == FirstDigit(s, 1) <= Len(s)

\* parseInt(responseText.match(/\d+/)[0])
FirstInt(s) ==
  LET i == FirstDigit(s, 1) IN DecimalValue(s, i, DigitsEnd(s, i), 0)

\* text.replace(/[\r\n]+/g, "\n")
RECURSIVE ReplaceLineEnds(_)
ReplaceLineEnds(s) ==
  IF s = << >> THEN << >>
  ELSE IF Head(s) \in LineEnds
    THEN IF Len(s) > 1 /\ s[2] \in LineEnds
           THEN ReplaceLineEnds(Tail(s))
           ELSE <<"LF">> \o ReplaceLineEnds(Tail(s))
  ELSE <<Head(s)>> \o ReplaceLineEnds(Tail(s))

\* text.trim()
RECURSIVE TrimStart(_)
TrimStart(s) ==
  IF s # << >> /\ Head(s) \in JsonWs THEN TrimStart(Tail(s)) ELSE s
RECURSIVE TrimEnd(_)
TrimEnd(s) ==
  IF s # << >> /\ s[Len(s)] \in JsonWs
    THEN TrimEnd(SubSeq(s, 1, Len(s) - 1)) ELSE s
Trim(s) == TrimEnd(TrimStart(s))

(***************************************************************************)
(* Response normaliser (strict parse, then fallback).                      *)
(***************************************************************************)
\* the try block of the ATS normaliser reaches res.json: JSON.parse returns,
\* reading the properties does not throw, and the format test passes
AtsStrictOk(text) ==
  LET p == JsonParse(text) IN
  /\ p.ok
  /\ CanGet(p.val)
  /\ ~(~Truthy(Get(p.val, "score")) \/ ~IsArray(Get(p.val, "suggestions")))

\* a strict response that drops the parsed findings
AtsStrictBodyNoFindings(parsed) ==
  [score |-> Get(parsed, "score"),
   findings |-> Arr(<< >>),
   suggestions |-> Get(parsed, "suggestions")]

\* the strict response of the ATS normaliser
AtsStrictBody(parsed) ==
  [score |-> Get(parsed, "score"),
   findings |-> OrElse(Get(parsed, "findings"), Arr(<< >>)),
   suggestions |-> Get(parsed, "suggestions")]

\* a fallback score with another default
AtsFallbackScoreZero(text) == IF HasDigits(text) THEN FirstInt(text) ELSE 0

\* scoreMatch ? parseInt(scoreMatch[0]) : 70
AtsFallbackScore(text) == IF HasDigits(text) THEN FirstInt(text) ELSE 70

AtsFallbackBody(text) ==
  [score |-> Num(AtsFallbackScore(text)),
   findings |-> Arr(<<Str("Analysis completed")>>),
   suggestions |-> Arr(<<Str("Consider reviewing the resume format")>>)]

AtsNormalize(text) ==
  IF AtsStrictOk(text) THEN AtsStrictBody(JsonParse(text).val)
  ELSE AtsFallbackBody(text)

CoverStrictOk(text) ==
  LET p == JsonParse(text) IN
  /\ p.ok
  /\ CanGet(p.val)
  /\ ~(~Truthy(Get(p.val, "coverLetter")))

CoverStrictBody(parsed) == [coverLetter |-> Get(parsed, "coverLetter")]

LetterContent(text) == Text(Trim(ReplaceLineEnds(text)))

CoverFallbackBody(text) ==
  [coverLetter |-> LetterContent(text),
   highlights |->
     Arr(<<Str("Letter generated based on your resume and job description")>>),
   suggestedImprovements |->
     Arr(<<Str("Consider reviewing and personalizing the generated content")>>)]

CoverNormalize(text) ==
  IF CoverStrictOk(text) THEN CoverStrictBody(JsonParse(text).val)
  ELSE CoverFallbackBody(text)

TextFallbackData(text) ==
  [coverLetter |-> LetterContent(text),
   highlights |->
     Arr(<<Str("Letter generated based on your background and job description")>>),
   suggestedImprovements |->
     Arr(<<Str("Consider reviewing and personalizing the generated content")>>)]

TextNormalize(text) ==
  [success |-> Bool(TRUE),
   data |-> Obj(IF CoverStrictOk(text) THEN CoverStrictBody(JsonParse(text).val)
                ELSE TextFallbackData(text))]

(***************************************************************************)
(* Responses.                                                              *)
(***************************************************************************)
NoRes == [status |-> 0]
RouteRes(status, body) == [status |-> status, via |-> "route", body |-> body]

\* a catch block that always answers with the fixed message
ErrorMessageFixed(message, fallback) == fallback

\* error.message || fallback
ErrorMessage(message, fallback) == IF message # "" THEN message ELSE fallback

\* the body of the catch blocks of the two upload routes; JSON drops the
\* undefined details
ErrorBody(message, fallback, env) ==
  IF env = "development"
    THEN [error |-> Str(ErrorMessage(message, fallback)), details |-> Str("stack")]
    ELSE [error |-> Str(ErrorMessage(message, fallback))]

AtsError(message, env) ==
  RouteRes(500, ErrorBody(message, "Failed to check ATS score", env))
CoverError(message, env) ==
  RouteRes(500, ErrorBody(message, "Failed to generate cover letter", env))

\* the catch block of the text route: a fixed error, the message as details
TextError(message, env) ==
  RouteRes(500,
    IF env = "development"
      THEN [success |-> Bool(FALSE), error |-> Str("Failed to generate cover letter"),
            details |-> Str(message)]
      ELSE [success |-> Bool(FALSE), error |-> Str("Failed to generate cover letter")])

TextFieldsRequired ==
  RouteRes(400,
    [success |-> Bool(FALSE),
     error |-> Str("Both job description and skills/experience are required")])

\* an error the upload middleware passes to next(err): no route handler runs,
\* the framework's final handler answers with status 500 and a page that is
\* the status text in production and the stack of the error otherwise
MiddlewareError(message, env) ==
  [status |-> 500, via |-> "express",
   body |-> [html |-> Str(IF env = "production" THEN "Internal Server Error"
                          ELSE message)]]

(***************************************************************************)
(* Inputs.                                                                 *)
(***************************************************************************)
PdfMime == "application/pdf"
MimeTypes == {PdfMime, "text/plain"}
FileSizeLimit == 5 * 1024 * 1024
FileSizes == {10 * 1024, 6 * 1024 * 1024}
OriginalNames == {"resume.pdf", "cv.pdf"}
FieldValues == {Undef, Str(""), Str("x")}
NodeEnvs == {"development", "production", "unset"}

NoFile == [present |-> FALSE]
Files(names) ==
  {[present |-> TRUE, mimetype |-> m, size |-> z, originalname |-> n] :
     m \in MimeTypes, z \in FileSizes, n \in names}

\* what the PDF parser yields as data.text
PdfTexts == {<< >>, <<"SP", "LF">>, <<"SP", "w", "SP">>}
\* messages of the errors the generation client fails with
GenErrors == {"quota exceeded", ""}

T_AtsFull ==
  <<"{", "'score'", ":", "8", "2", ",", "SP", "'findings'", ":", "[", "'x'", "]",
    ",", "'suggestions'", ":", "[", "'y'", "]", "}">>
T_AtsNoFindings ==
  <<"{", "'score'", ":", "8", "2", ",", "'suggestions'", ":", "[", "]", "}", "LF">>
T_AtsNullFindings ==
  <<"{", "'score'", ":", "9", ",", "'findings'", ":", "null", ",",
    "'suggestions'", ":", "[", "'y'", "]", "}">>
T_AtsEmptyFindings ==
  <<"{", "'score'", ":", "9", ",", "'findings'", ":", "''", ",",
    "'suggestions'", ":", "[", "'y'", "]", "}">>
T_AtsTextFindings ==
  <<"{", "'score'", ":", "9", ",", "'findings'", ":", "'x'", ",",
    "'suggestions'", ":", "[", "'y'", "]", "}">>
T_AtsTextScore ==
  <<"{", "'score'", ":", "'x'", ",", "'suggestions'", ":", "[", "8", "]", "}">>
T_AtsZeroScore ==
  <<"{", "'score'", ":", "0", ",", "'suggestions'", ":", "[", "]", "}">>
T_AtsTextSuggestions ==
  <<"{", "'score'", ":", "8", "2", ",", "'suggestions'", ":", "'y'", "}">>
T_Prose75 == <<"w", "SP", "7", "5", "SP", "w", "SP", "1", "0", "0", "w">>
T_Prose == <<"w", "SP", "w">>
T_Lines == <<"LF", "w", "CR", "LF", "LF", "w", "SP", "0", "7", "CR">>
T_Null == <<"null">>
T_Number == <<"4", "2">>
T_Empty == << >>
T_Cover == <<"{", "'coverLetter'", ":", "'x'", "}">>
T_CoverComma == <<"{", "'coverLetter'", ":", "'x'", ",", "}">>
T_CoverNumber == <<"{", "'coverLetter'", ":", "7", "}">>
T_CoverEmpty == <<"{", "'coverLetter'", ":", "''", "}">>

AllTexts ==
  {T_AtsFull, T_AtsNoFindings, T_AtsNullFindings, T_AtsEmptyFindings,
   T_AtsTextFindings,
   T_AtsTextScore, T_AtsZeroScore, T_AtsTextSuggestions, T_Prose75, T_Prose,
   T_Lines, T_Null, T_Number, T_Empty, T_Cover, T_CoverComma, T_CoverNumber,
   T_CoverEmpty}

\* the inputs requests are drawn from: every kind of input, for one request
\* at a time, and one input of each kind the pipeline tells apart, for
\* concurrent requests
AllInputs ==
  [texts |-> AllTexts, names |-> OriginalNames, fields |-> FieldValues,
   pdfTexts |-> PdfTexts, genErrors |-> GenErrors, envs |-> NodeEnvs]
FewInputs ==
  [texts |-> {T_AtsFull, T_Prose75}, names |-> {"resume.pdf"},
   fields |-> {Undef, Str("x")}, pdfTexts |-> PdfTexts,
   genErrors |-> {"quota exceeded"}, envs |-> {"unset"}]

(***************************************************************************)
(* State.                                                                  *)
(***************************************************************************)
VARIABLES
  now,          \* Date.now()
  nodeEnv,      \* process.env.NODE_ENV
  disk,         \* the uploads directory: <<path, r>> when the file at path
                \* exists and holds bytes request r wrote
  pc,           \* where each request is
  req,          \* each request: route, file part, stored path, body fields
  filePath,     \* the handler's local filePath
  pdfText,      \* the text the extractor returned
  responseText, \* result.response.text()
  thrown,       \* the message of the error the request failed with
  res,          \* the response issued
  log           \* what each request did, in order

vars ==
  <<now, nodeEnv, disk, pc, req, filePath, pdfText, responseText, thrown, res, log>>

NoReq == [route |-> "none"]
NoPath == << >>
NoText == <<"none">>
NoError == "none"

\* storage.filename
Filename(time, originalname) == <<time, originalname>>

ExistsSync(d, path) == \E e \in d : e[1] = path
Unlink(d, path) == {e \in d : e[1] # path}

\* a fileFilter that accepts every file
FileFilterAny(file) == TRUE

\* upload.fileFilter
FileFilter(file) == file.mimetype = PdfMime

\* limits.fileSize
OverLimit(file) == file.size > FileSizeLimit

InitOver(in) ==
  /\ now = 0
  /\ nodeEnv \in in.envs
  /\ disk = {}
  /\ pc = [r \in Reqs |-> "idle"]
  /\ req = [r \in Reqs |-> NoReq]
  /\ filePath = [r \in Reqs |-> NoPath]
  /\ pdfText = [r \in Reqs |-> NoText]
  /\ responseText = [r \in Reqs |-> NoText]
  /\ thrown = [r \in Reqs |-> NoError]
  /\ res = [r \in Reqs |-> NoRes]
  /\ log = [r \in Reqs |-> << >>]

\* the clock advances
Tick ==
  /\ now < MaxTime
  /\ now' = now + 1
  /\ UNCHANGED <<nodeEnv, disk, pc, req, filePath, pdfText, responseText, thrown,
                 res, log>>

\* cleanupFile(path): the events it adds to the log
CleanupEvents(d, path) ==
  IF path # NoPath /\ ExistsSync(d, path) THEN <<"unlink">> ELSE << >>
\* finally { if (filePath) cleanupFile(filePath) }: the directory afterwards
Finally(d, path) ==
  IF path # NoPath /\ ExistsSync(d, path) THEN Unlink(d, path) ELSE d

\* the handler of request r issues response and leaves through finally with
\* its local filePath being path; events are what it did before
Respond(r, events, response, path) ==
  /\ res' = [res EXCEPT ![r] = response]
  /\ log' = [log EXCEPT ![r] = @ \o events \o <<"resp">> \o CleanupEvents(disk, path)]
  /\ disk' = Finally(disk, path)
  /\ filePath' = [filePath EXCEPT ![r] = path]
  /\ pc' = [pc EXCEPT ![r] = "done"]

ErrorOf(route, message) ==
  CASE route = "ats" -> AtsError(message, nodeEnv)
    [] route = "cover" -> CoverError(message, nodeEnv)
    [] route = "text" -> TextError(message, nodeEnv)

\* an error with this message is thrown in the handler of request r: the
\* catch block of the route answers
Throw(r, route, events, message, path) ==
  /\ thrown' = [thrown EXCEPT ![r] = message]
  /\ Respond(r, events, ErrorOf(route, message), path)

\* the handler of request r suspends at an await
Suspend(r, events, path, at) ==
  /\ log' = [log EXCEPT ![r] = @ \o events]
  /\ filePath' = [filePath EXCEPT ![r] = path]
  /\ pc' = [pc EXCEPT ![r] = at]
  /\ UNCHANGED <<res, disk, thrown>>

(***************************************************************************)
(* The route handlers, from their first statement to the first await they  *)
(* suspend at or to their end.                                             *)
(***************************************************************************)
ExtractError == "Failed to extract text from PDF"

\* POST /api/ats-check, entered with req.file.path = path (NoPath: no file)
AtsHandler(r, path) ==
  IF path = NoPath
    THEN Throw(r, "ats", << >>, "No file uploaded", NoPath)
  ELSE IF ~ExistsSync(disk, path)
    \* readFileSync throws inside extractTextFromPDF
    THEN Throw(r, "ats", <<"ext">>, ExtractError, path)
  ELSE Suspend(r, <<"ext">>, path, "extracting")

\* POST /api/generate-cover-letter
CoverHandler(r, path, body) ==
  IF path = NoPath
    THEN Throw(r, "cover", << >>, "No resume file uploaded", NoPath)
  ELSE IF ~Truthy(body.jobDescription)
    \* thrown before filePath is assigned
    THEN Throw(r, "cover", << >>, "No job description provided", NoPath)
  ELSE IF ~ExistsSync(disk, path)
    THEN Throw(r, "cover", <<"ext">>, ExtractError, path)
  ELSE Suspend(r, <<"ext">>, path, "extracting")

UploadHandler(r, rq) ==
  IF rq.route = "ats" THEN AtsHandler(r, rq.path)
  ELSE CoverHandler(r, rq.path, rq.body)

\* a test that asks for one of the two fields only
TextFieldsMissingBoth(body) ==
  ~Truthy(body.jobDescription) /\ ~Truthy(body.skillsExperience)

\* !jobDescription || !skillsExperience
TextFieldsMissing(body) ==
  ~Truthy(body.jobDescription) \/ ~Truthy(body.skillsExperience)

\* POST /api/generate-cover-letter/text
TextHandler(r, body) ==
  IF TextFieldsMissing(body)
    THEN Respond(r, << >>, TextFieldsRequired, NoPath) /\ UNCHANGED thrown
  ELSE Suspend(r, <<"gen">>, NoPath, "generating")

\* a test that does not trim the text
EmptyExtractedNoTrim(text) == ~Truthy(Text(text))

\* !pdfText || pdfText.trim().length === 0
EmptyExtracted(text) == ~Truthy(Text(text)) \/ Len(Trim(text)) = 0

EmptyTextError(route) ==
  IF route = "ats" THEN "Could not extract text from PDF"
  ELSE "Could not extract text from resume PDF"

Normalize(route, text) ==
  CASE route = "ats" -> AtsNormalize(text)
    [] route = "cover" -> CoverNormalize(text)
    [] route = "text" -> TextNormalize(text)

(***************************************************************************)
(* Actions.  Requests are numbered in the order they arrive.               *)
(***************************************************************************)
Arrives(r) == pc[r] = "idle" /\ (IF r = 1 THEN TRUE ELSE pc[r - 1] # "idle")

UploadRoutes == {"ats", "cover"}
\* the body fields a route reads
Bodies(route, fields) ==
  IF route = "ats" THEN {[jobDescription |-> Undef]}
  ELSE {[jobDescription |-> jd] : jd \in fields}

\* a JSON request to the text route
ArriveText(r, in) ==
  /\ Arrives(r)
  /\ \E jd \in in.fields, sk \in in.fields :
       LET rq == [route |-> "text", file |-> NoFile, path |-> NoPath,
                  body |-> [jobDescription |-> jd, skillsExperience |-> sk]]
       IN /\ req' = [req EXCEPT ![r] = rq]
          /\ TextHandler(r, rq.body)
  /\ UNCHANGED <<now, nodeEnv, pdfText, responseText>>

\* a multipart request without a file part: req.file stays undefined
ArriveNoFile(r, in) ==
  /\ Arrives(r)
  /\ \E route \in UploadRoutes : \E body \in Bodies(route, in.fields) :
       LET rq == [route |-> route, file |-> NoFile, path |-> NoPath, body |-> body]
       IN /\ req' = [req EXCEPT ![r] = rq]
          /\ UploadHandler(r, rq)
  /\ UNCHANGED <<now, nodeEnv, pdfText, responseText>>

\* a file part the fileFilter refuses: nothing is stored, no handler runs
ArriveRejected(r, in) ==
  /\ Arrives(r)
  /\ \E route \in UploadRoutes, file \in Files(in.names) :
     \E body \in Bodies(route, in.fields) :
       /\ ~FileFilter(file)
       /\ req' = [req EXCEPT ![r] =
                    [route |-> route, file |-> file, path |-> NoPath, body |-> body]]
  /\ thrown' = [thrown EXCEPT ![r] = "Only PDF files are allowed"]
  /\ res' = [res EXCEPT ![r] = MiddlewareError("Only PDF files are allowed", nodeEnv)]
  /\ log' = [log EXCEPT ![r] = @ \o <<"resp">>]
  /\ pc' = [pc EXCEPT ![r] = "done"]
  /\ UNCHANGED <<now, nodeEnv, disk, filePath, pdfText, responseText>>

\* a file part the fileFilter accepts: the storage names the file and opens
\* it for writing
ArriveUpload(r, in) ==
  /\ Arrives(r)
  /\ \E route \in UploadRoutes, file \in Files(in.names) :
     \E body \in Bodies(route, in.fields) :
       /\ FileFilter(file)
       /\ LET path == Filename(now, file.originalname) IN
          /\ req' = [req EXCEPT ![r] =
                       [route |-> route, file |-> file, path |-> path, body |-> body]]
          /\ disk' = disk \cup {<<path, r>>}
  /\ log' = [log EXCEPT ![r] = @ \o <<"write">>]
  /\ pc' = [pc EXCEPT ![r] = "uploading"]
  /\ UNCHANGED <<now, nodeEnv, filePath, pdfText, responseText, thrown, res>>

\* the file was written whole: the middleware calls the handler
UploadEnd(r) ==
  /\ pc[r] = "uploading"
  /\ ~OverLimit(req[r].file)
  /\ UploadHandler(r, req[r])
  /\ UNCHANGED <<now, nodeEnv, req, pdfText, responseText>>

\* the file grew past limits.fileSize: the middleware removes what it stored
\* and passes the error on, no handler runs
UploadAbort(r) ==
  /\ pc[r] = "uploading"
  /\ OverLimit(req[r].file)
  /\ disk' = Unlink(disk, req[r].path)
  /\ thrown' = [thrown EXCEPT ![r] = "File too large"]
  /\ res' = [res EXCEPT ![r] = MiddlewareError("File too large", nodeEnv)]
  /\ log' = [log EXCEPT ![r] = @ \o <<"remove", "resp">>]
  /\ pc' = [pc EXCEPT ![r] = "done"]
  /\ UNCHANGED <<now, nodeEnv, req, filePath, pdfText, responseText>>

\* await extractTextFromPDF(filePath) throws
ExtractFailed(r) ==
  /\ pc[r] = "extracting"
  /\ Throw(r, req[r].route, << >>, ExtractError, filePath[r])
  /\ UNCHANGED <<now, nodeEnv, req, pdfText, responseText>>

\* await extractTextFromPDF(filePath) returns data.text
ExtractReturned(r, in) ==
  /\ pc[r] = "extracting"
  /\ \E text \in in.pdfTexts :
       /\ pdfText' = [pdfText EXCEPT ![r] = text]
       /\ IF EmptyExtracted(text)
            THEN Throw(r, req[r].route, << >>, EmptyTextError(req[r].route),
                       filePath[r])
            ELSE Suspend(r, <<"gen">>, filePath[r], "generating")
  /\ UNCHANGED <<now, nodeEnv, req, responseText>>

\* a handler that calls the generation client again when it fails
GenerateFailedRetry(r, in) ==
  /\ pc[r] = "generating"
  /\ Suspend(r, <<"gen">>, filePath[r], "generating")
  /\ UNCHANGED <<now, nodeEnv, req, pdfText, responseText>>

\* await model.generateContent(prompt) throws
GenerateFailed(r, in) ==
  /\ pc[r] = "generating"
  /\ \E message \in in.genErrors :
       Throw(r, req[r].route, << >>, message, filePath[r])
  /\ UNCHANGED <<now, nodeEnv, req, pdfText, responseText>>

\* await model.generateContent(prompt) returns; the text is normalised
GenerateReturned(r, in) ==
  /\ pc[r] = "generating"
  /\ \E text \in in.texts :
       /\ responseText' = [responseText EXCEPT ![r] = text]
       /\ Respond(r, << >>, RouteRes(200, Normalize(req[r].route, text)), filePath[r])
  /\ UNCHANGED <<now, nodeEnv, req, pdfText, thrown>>

NextOver(requests, in) ==
  \/ Tick
  \/ \E r \in requests :
       \/ ArriveText(r, in)
       \/ ArriveNoFile(r, in)
       \/ ArriveRejected(r, in)
       \/ ArriveUpload(r, in)
       \/ UploadEnd(r)
       \/ UploadAbort(r)
       \/ ExtractFailed(r)
       \/ ExtractReturned(r, in)
       \/ GenerateFailed(r, in)
       \/ GenerateReturned(r, in)

\* concurrent requests
Init == InitOver(FewInputs)
Next == NextOver(Reqs, FewInputs)
Spec == Init /\ [][Next]_vars

\* one request at a time, every kind of input
InitNorm == InitOver(AllInputs)
NextNorm == NextOver({1}, AllInputs)
SpecNorm == InitNorm /\ [][NextNorm]_vars

(***************************************************************************)
(* Properties.                                                             *)
(***************************************************************************)
Count(events, e) == Cardinality({i \in DOMAIN events : events[i] = e})
Did(r, e) == Count(log[r], e) > 0
\* every e of events comes after some f
After(events, e, f) ==
  \A i \in DOMAIN events : events[i] = e => \E j \in 1..(i - 1) : events[j] = f

Started(r) == pc[r] # "idle"
Done(r) == pc[r] = "done"
HasFile(r) == Started(r) /\ req[r].file.present
IsUpload(r) == Started(r) /\ req[r].route \in UploadRoutes
\* the upload was accepted: a PDF by its MIME type, within the size ceiling
Accepted(r) ==
  /\ HasFile(r)
  /\ req[r].file.mimetype = "application/pdf"
  /\ req[r].file.size <= 5 * 1024 * 1024
\* the upload was refused: not a PDF by its MIME type, or over the ceiling
Refused(r) ==
  /\ HasFile(r)
  /\ \/ req[r].file.mimetype # "application/pdf"
     \/ req[r].file.size > 5 * 1024 * 1024
OnDisk(r) == \E e \in disk : e[2] = r

\* C1: once the handler of a request whose upload was accepted has finished,
\* the uploaded file is no longer on disk, whatever the exit path, and it was
\* deleted after the response was issued and at most once.
C1_UploadRemoved ==
  \A r \in Reqs :
    (Done(r) /\ Accepted(r)) =>
      /\ ~OnDisk(r)
      /\ Count(log[r], "unlink") <= 1
      /\ After(log[r], "unlink", "resp")

\* C2: a request whose upload is not a PDF by its MIME type or is larger than
\* 5 MiB never reaches the extractor or the generation client, fails, and
\* leaves no file of its own on disk.
C2_RefusedUploadStops ==
  \A r \in Reqs :
    Refused(r) =>
      /\ ~Did(r, "ext")
      /\ ~Did(r, "gen")
      /\ Done(r) => (res[r].status >= 400 /\ ~OnDisk(r))

\* a refused non-PDF and a refused oversized PDF, the latter stored and removed
C2_Witness ==
  \E r1, r2 \in Reqs :
    /\ Done(r1) /\ HasFile(r1) /\ req[r1].file.mimetype = "text/plain"
    /\ Done(r2) /\ HasFile(r2) /\ req[r2].file.mimetype = "application/pdf"
    /\ req[r2].file.size > 5 * 1024 * 1024
    /\ Did(r2, "write") /\ Did(r2, "remove")

\* C10: each uploaded file is owned by the one request that created it: no
\* two requests write the same storage path, and the file of a request that
\* still has to read it is not deleted under it.
C10_ExclusiveOwnership ==
  /\ \A r1, r2 \in Reqs :
       (r1 # r2 /\ Did(r1, "write") /\ Did(r2, "write")) => req[r1].path # req[r2].path
  /\ \A r \in Reqs : (Accepted(r) /\ pc[r] = "uploading") => OnDisk(r)

(***************************************************************************)
(* Properties of the normaliser.                                           *)
(***************************************************************************)
\* the generation client returned a text to request r
Returned(r) == Done(r) /\ responseText[r] # NoText
Parsed(r) == JsonParse(responseText[r])
Has(v, key) == v.t = "obj" /\ key \in DOMAIN v.v
\* valid JSON with the required fields of the ATS task
AtsFields(r) ==
  /\ Parsed(r).ok
  /\ Has(Parsed(r).val, "score") /\ Truthy(Parsed(r).val.v["score"])
  /\ Has(Parsed(r).val, "suggestions") /\ Parsed(r).val.v["suggestions"].t = "arr"
\* valid JSON with the required field of the cover letter tasks
CoverField(r) ==
  /\ Parsed(r).ok
  /\ Has(Parsed(r).val, "coverLetter") /\ Truthy(Parsed(r).val.v["coverLetter"])

Ok200(body) == [status |-> 200, via |-> "route", body |-> body]
CoverMirror(r) == [coverLetter |-> Parsed(r).val.v["coverLetter"]]
CoverMirrored(r) ==
  /\ (req[r].route = "cover" /\ CoverField(r)) => res[r] = Ok200(CoverMirror(r))
  /\ (req[r].route = "text" /\ CoverField(r)) =>
       res[r] = Ok200([success |-> [t |-> "bool", v |-> TRUE],
                       data |-> [t |-> "obj", v |-> CoverMirror(r)]])

\* C3, as claimed: a generation result that is valid JSON with the required
\* fields is answered from the parsed fields alone, findings being the parsed
\* findings, or an empty sequence when the result has none (a findings of
\* null counted as none).
C3_StrictMirrorsParsed ==
  \A r \in Reqs :
    Returned(r) =>
      /\ (req[r].route = "ats" /\ AtsFields(r)) =>
           res[r] = Ok200(
             [score |-> Parsed(r).val.v["score"],
              findings |-> IF Has(Parsed(r).val, "findings")
                              /\ Parsed(r).val.v["findings"].t # "null"
                             THEN Parsed(r).val.v["findings"]
                             ELSE [t |-> "arr", v |-> << >>],
              suggestions |-> Parsed(r).val.v["suggestions"]])
      /\ CoverMirrored(r)

\* C3, amended: as above, findings being the parsed findings when that value
\* is truthy, and an empty sequence when it is absent or falsy (null, false,
\* 0, the empty string).
C3_StrictMirrorsTruthy ==
  \A r \in Reqs :
    Returned(r) =>
      /\ (req[r].route = "ats" /\ AtsFields(r)) =>
           res[r] = Ok200(
             [score |-> Parsed(r).val.v["score"],
              findings |-> IF Has(Parsed(r).val, "findings")
                              /\ Truthy(Parsed(r).val.v["findings"])
                             THEN Parsed(r).val.v["findings"]
                             ELSE [t |-> "arr", v |-> << >>],
              suggestions |-> Parsed(r).val.v["suggestions"]])
      /\ CoverMirrored(r)

\* a strict ATS answer with truthy findings
C3_Witness ==
  \E r \in Reqs :
    /\ Returned(r) /\ req[r].route = "ats" /\ AtsFields(r)
    /\ Has(Parsed(r).val, "findings")
    /\ res[r].body.findings = [t |-> "arr", v |-> <<[t |-> "str", v |-> "x"]>>]
    /\ res[r].body.score = [t |-> "num", v |-> 82]

\* the decimal value of the n digits of text from position i on
RECURSIVE RunValue(_, _, _)
RunValue(text, i, n) ==
  IF n = 0 THEN 0 ELSE RunValue(text, i, n - 1) * 10 + DigitVal(text[i + n - 1])
IsDigitAt(text, i) == i \in DOMAIN text /\ text[i] \in Digits
\* the value of the first run of decimal digits of text, 70 when it has none
ExpectedScore(text) ==
  IF \A i \in DOMAIN text : ~IsDigitAt(text, i) THEN 70
  ELSE
    LET first == CHOOSE i \in DOMAIN text :
                   IsDigitAt(text, i) /\ \A j \in 1..(i - 1) : ~IsDigitAt(text, j)
        n == CHOOSE k \in 1..Len(text) :
               /\ \A j \in first..(first + k - 1) : IsDigitAt(text, j)
               /\ ~IsDigitAt(text, first + k)
    IN RunValue(text, first, n)

\* C4: a generation result that is not valid JSON, or lacks the ATS fields,
\* gets a success response with the first run of digits of the raw text as
\* score, 70 when there is no digit, and the two fixed sequences.
C4_AtsFallback ==
  \A r \in Reqs :
    (Returned(r) /\ req[r].route = "ats" /\ ~AtsFields(r)) =>
      res[r] = Ok200(
        [score |-> [t |-> "num", v |-> ExpectedScore(responseText[r])],
         findings |-> [t |-> "arr", v |-> <<[t |-> "str", v |-> "Analysis completed"]>>],
         suggestions |->
           [t |-> "arr",
            v |-> <<[t |-> "str", v |-> "Consider reviewing the resume format"]>>]])

\* the fallback took the default: a raw text without a digit
C4_Witness ==
  \E r \in Reqs :
    /\ Returned(r) /\ req[r].route = "ats" /\ ~Parsed(r).ok
    /\ \A i \in DOMAIN responseText[r] : responseText[r][i] \notin Digits
    /\ res[r].body.score = [t |-> "num", v |-> 70]

\* C7: every success response has the shape of its task: a number and two
\* sequences of strings for ATS, a string for cover letters.
C7_SuccessShape ==
  \A r \in Reqs :
    (Done(r) /\ res[r].status = 200) =>
      CASE req[r].route = "ats" ->
             /\ IsNumber(res[r].body.score)
             /\ IsStringArray(res[r].body.findings)
             /\ IsStringArray(res[r].body.suggestions)
        [] req[r].route = "cover" -> IsString(res[r].body.coverLetter)
        [] req[r].route = "text" -> IsString(res[r].body.data.v.coverLetter)

(***************************************************************************)
(* Properties of validation and of the error paths.                        *)
(***************************************************************************)
\* a body field that is missing or empty
Missing(x) == x.t = "undef" \/ (x.t = "str" /\ x.v = "")
TextMissing(r) ==
  /\ Started(r) /\ req[r].route = "text"
  /\ Missing(req[r].body.jobDescription) \/ Missing(req[r].body.skillsExperience)
Required400 ==
  [status |-> 400, via |-> "route",
   body |-> [success |-> [t |-> "bool", v |-> FALSE],
             error |-> [t |-> "str",
                        v |-> "Both job description and skills/experience are required"]]]

\* C5: a request to the text route without a job description or without
\* skills/experience is answered with status 400 and the fixed body, and the
\* generation client is not invoked.
C5_TextFieldsRequired ==
  \A r \in Reqs :
    TextMissing(r) => (Done(r) /\ res[r] = Required400 /\ ~Did(r, "gen"))

\* the scenario: a job description without skills/experience
C5_Witness ==
  \E r \in Reqs :
    /\ TextMissing(r) /\ Done(r)
    /\ req[r].body.jobDescription = [t |-> "str", v |-> "x"]
    /\ req[r].body.skillsExperience = [t |-> "undef"]
    /\ res[r].status = 400

Failed(r) == Done(r) /\ res[r].status >= 400
ErrorShape(body) == DOMAIN body \in {{"error"}, {"error", "details"}}

\* C6, as claimed: every failing request is answered by the error path of its
\* route with a 500-class status and a body {error, details?} whose error is
\* the message of the failure.
C6_UniformErrors ==
  \A r \in Reqs :
    Failed(r) =>
      /\ res[r].via = "route"
      /\ res[r].status \in 500..599
      /\ ErrorShape(res[r].body)
      /\ res[r].body.error = [t |-> "str", v |-> thrown[r]]

DefaultMessage(route) ==
  IF route = "ats" THEN "Failed to check ATS score" ELSE "Failed to generate cover letter"
DetailsIffDevelopment(body) == ("details" \in DOMAIN body) <=> (nodeEnv = "development")

\* C6, amended: a failure inside the handler of an upload route is answered by
\* the catch block of the route with status 500 and {error, details?}, error
\* being the message of the failure, or the default of the route when that
\* message is empty; the text route answers missing fields with status 400
\* and a generation failure with status 500 and a fixed error, the message
\* being the details; a refused upload is answered by the framework with
\* status 500, no handler having run.
C6_ErrorPaths ==
  \A r \in Reqs :
    /\ Done(r) => ((thrown[r] # NoError \/ TextMissing(r)) <=> res[r].status >= 400)
    /\ Failed(r) =>
         IF Refused(r)
           THEN /\ res[r].via = "express" /\ res[r].status = 500
                /\ thrown[r] \in {"Only PDF files are allowed", "File too large"}
         ELSE IF req[r].route = "text"
           THEN IF TextMissing(r) THEN res[r] = Required400
                ELSE /\ res[r].via = "route" /\ res[r].status = 500
                     /\ DOMAIN res[r].body \in
                          {{"success", "error"}, {"success", "error", "details"}}
                     /\ res[r].body.success = [t |-> "bool", v |-> FALSE]
                     /\ res[r].body.error =
                          [t |-> "str", v |-> "Failed to generate cover letter"]
                     /\ DetailsIffDevelopment(res[r].body)
                     /\ "details" \in DOMAIN res[r].body =>
                          res[r].body.details = [t |-> "str", v |-> thrown[r]]
         ELSE /\ res[r].via = "route" /\ res[r].status = 500
              /\ ErrorShape(res[r].body)
              /\ DetailsIffDevelopment(res[r].body)
              /\ res[r].body.error =
                   [t |-> "str",
                    v |-> IF thrown[r] # "" THEN thrown[r]
                          ELSE DefaultMessage(req[r].route)]

\* a generation failure in an upload route, answered with its message
C6_Witness ==
  \E r \in Reqs :
    /\ Failed(r) /\ IsUpload(r) /\ Did(r, "gen")
    /\ thrown[r] = "quota exceeded"
    /\ res[r].body.error = [t |-> "str", v |-> "quota exceeded"]

\* the extracted text is empty once white space is trimmed
Blank(text) == \A i \in DOMAIN text : text[i] \in {"SP", "CR", "LF"}
ErrorResponse(r) == Done(r) /\ res[r].status = 500 /\ res[r].via = "route"

\* C8: in the upload routes the generation client is invoked only after the
\* validation passed: without a file, without a job description (cover
\* letter), when extraction fails or yields a blank text, the request ends in
\* the error response and never invokes it, and without a file the extractor
\* is not reached either.
C8_ValidationBeforeGeneration ==
  \A r \in Reqs :
    IsUpload(r) =>
      /\ ~HasFile(r) => (ErrorResponse(r) /\ ~Did(r, "ext") /\ ~Did(r, "gen"))
      /\ (req[r].route = "cover" /\ Missing(req[r].body.jobDescription)) =>
           /\ ~Did(r, "gen")
           /\ pc[r] \in {"uploading", "done"}
           /\ Done(r) => res[r].status = 500
      /\ thrown[r] = "Failed to extract text from PDF" =>
           (ErrorResponse(r) /\ ~Did(r, "gen"))
      /\ (pdfText[r] # NoText /\ Blank(pdfText[r])) =>
           (ErrorResponse(r) /\ ~Did(r, "gen"))
      /\ Did(r, "gen") =>
           /\ Accepted(r)
           /\ pdfText[r] # NoText /\ ~Blank(pdfText[r])
           /\ After(log[r], "gen", "ext")

\* one request stopped at a text of white space alone, another passed the
\* validation and reached the generation client
C8_Witness ==
  \E r1, r2 \in Reqs :
    /\ IsUpload(r1) /\ Done(r1) /\ pdfText[r1] = <<"SP", "LF">> /\ ~Did(r1, "gen")
    /\ IsUpload(r2) /\ Did(r2, "gen")

\* the events of kind e of request r all come before its response
BeforeResponse(r, e) ==
  \A i, j \in DOMAIN log[r] : (log[r][i] = e /\ log[r][j] = "resp") => i < j

\* C9: a request invokes the extractor at most once and the generation client
\* at most once, gets exactly one response, and is over with it: neither a
\* fallback nor a generation failure leads back to the generation client.
C9_AtMostOnce ==
  \A r \in Reqs :
    /\ Count(log[r], "ext") <= 1
    /\ Count(log[r], "gen") <= 1
    /\ Count(log[r], "resp") = (IF Done(r) THEN 1 ELSE 0)
    /\ BeforeResponse(r, "ext") /\ BeforeResponse(r, "gen")
    /\ responseText[r] # NoText => (Done(r) /\ res[r].status = 200)
    /\ (Did(r, "gen") /\ pc[r] # "generating") => Done(r)

\* one request answered by the fallback, another after a generation failure
C9_Witness ==
  \E r1, r2 \in Reqs :
    /\ Returned(r1) /\ req[r1].route = "ats" /\ ~Parsed(r1).ok
    /\ Done(r2) /\ Did(r2, "gen") /\ thrown[r2] = "quota exceeded"

====
